---- MODULE Spec2Model ----
(***************************************************************************)
(* mq2db: one worker thread per target receives messages from a message    *)
(* queue, decodes them with a loader, buffers the records and periodically *)
(* bulk-inserts the buffer into a database (src/src/mq2db/__init__.py).    *)
(*                                                                         *)
(* Spec    : one _Worker thread (run / flush), step by step.               *)
(* SpecCtl : the Mq2db controller (construction, start, stop, join) over   *)
(*           several targets.                                              *)
(*                                                                         *)
(* Time is counted in ticks on a shrunk scale: a receive timeout, the flush *)
(* interval, a second and a rotation period of the database URL are each a *)
(* few ticks, so that a small clock passes all of them.                    *)
(***************************************************************************)
EXTENDS Integers, Sequences, FiniteSets, TLC

\* ------------------------------------------------------------------ bounds
\* Messages one worker receives in a run.
MaxMsgs == 2
\* Records a loader returns for one message.
MaxRecs == 2
\* Last tick of the wall clock (the clock saturates there).
MaxClock == 2

\* ------------------------------------------------------- program constants
\* RCVTIMEO of the socket, in ticks.
RcvTimeo == 1
\* The configured flush interval (dbconf "interval"), in ticks.
Interval == 1
\* Ticks in one second: int(now.timestamp()) truncates to whole seconds.
TicksPerSecond == 2
\* Ticks in one rotation period of the strftime directives of the database URL.
TicksPerPeriod == 2
\* The value None of a column the decoded record does not have.
Null == 0

\* The configured user columns (dbconf "columns"), in configuration order.
Columns == <<"a", "b">>
\* The settings of the auto-columns (_datetime_, _timestamp_, _raw_) a worker
\* is configured with.
AutoConfs ==
    {<<FALSE, FALSE, FALSE>>, <<TRUE, FALSE, FALSE>>,
     <<FALSE, TRUE, TRUE>>, <<TRUE, TRUE, TRUE>>}
\* The keys of a decoded record: the column "a" is there, the column "b" is
\* missing, and "x" is a field that is no column.
KeySets == {{"a", "x"}}

VARIABLES
    \* ---- one worker (Spec)
    auto_datetime,  \* self._auto_datetime
    auto_timestamp, \* self._auto_timestamp
    auto_raw,       \* self._auto_raw
    pc,             \* where run() is
    stop_event,     \* self._stop_event
    clock,          \* the wall clock, datetime.now()
    now,            \* run's local now
    prev,           \* run's local prev
    rows,           \* run's local rows, the buffer
    sink,           \* the rows visible in the destination tables
    flushFrom,      \* which call of flush is in progress: "loop", "final", "none"
    fault,          \* the uncaught exception that ended run(): "none", "decode", "flush"
    sock,           \* self._sock: "open" since __init__, "closed" once released
    \* ---- history of the worker, read by the properties only
    received,       \* messages received so far
    appended,       \* records appended to the buffer so far
    last,           \* what the last step of the worker did
    rows0,          \* the buffer when the flush in progress (or last made) was called
    sink0,          \* the sink when that flush was called
    exitRows,       \* the buffer when the loop was left
    finalAttempts,  \* flush attempts made after the loop was left
    flushed,        \* the batches of the flushes that committed, concatenated
    outage,         \* the flush failures so far: "none", "unreachable" (every one at connect), "other"
    kept,           \* the length of the buffer after the latest failed flush
    \* ---- the controller (SpecCtl)
    confs,          \* self._conf["targets"]: target -> which parts of its configuration are valid
    ctl,            \* where the controller is
    next_target,    \* position of Mq2db.__init__'s loop over the targets
    threads,        \* self._threads
    wstate,         \* target -> state of its worker thread
    wstop,          \* target -> its worker's _stop_event
    \* ---- one receive of a worker whose loader is a CSVLoader (SpecCsv)
    csv_payload,    \* data.decode(enc).splitlines(), each line as its fields
    csv_result,     \* "none" before the receive, then "ok" or "fault" (an exception left run())
    csv_rows        \* run's local rows of that worker

wvars == <<auto_datetime, auto_timestamp, auto_raw, pc, stop_event, clock, now, prev,
           rows, sink, flushFrom, fault, sock>>
hvars == <<received, appended, last, rows0, sink0, exitRows, finalAttempts, flushed,
           outage, kept>>
cvars == <<confs, ctl, next_target, threads, wstate, wstop>>
xvars == <<csv_payload, csv_result, csv_rows>>
vars == <<wvars, hvars, cvars, xvars>>

\* ------------------------------------------------------------------ helpers
Min(a, b) == IF a < b THEN a ELSE b

Range(s) == {s[i] : i \in 1..Len(s)}

\* insert_columns: the user columns followed by the enabled auto-columns.
InsertColumns ==
    Range(Columns)
        \cup (IF auto_datetime THEN {"_datetime_"} ELSE {})
        \cup (IF auto_timestamp THEN {"_timestamp_"} ELSE {})
        \cup (IF auto_raw THEN {"_raw_"} ELSE {})

\* primary_key when none is configured: [_datetime_] when that auto-column is
\* enabled, no primary key otherwise.
PrimaryKey == IF auto_datetime THEN {"_datetime_"} ELSE {}

\* int(now.timestamp()): whole seconds of a time in ticks.
Timestamp(t) == t \div TicksPerSecond

\* now.strftime(self._db_url): the destination a time resolves to.
UrlOf(t) == t \div TicksPerPeriod

\* What self._loader(data) gives for a message: it raises, or returns a text
\* (TextLoader, n is the length of the text), one dict, or a list of n dicts
\* (an empty list or one of MaxRecs dicts; a list of one dict gives the buffer
\* what a dict gives it).
LoaderOutputs ==
    {[kind |-> "raise", n |-> 0, keys |-> {}]}
        \cup {[kind |-> "text", n |-> l, keys |-> {}] : l \in 0..1}
        \cup {[kind |-> "dict", n |-> 1, keys |-> K] : K \in KeySets}
        \cup {[kind |-> "list", n |-> k, keys |-> K] : k \in {0, MaxRecs}, K \in KeySets}

\* if not isinstance(list_of_dict, list): list_of_dict = [list_of_dict]
NumRecords(out) == IF out.kind = "list" THEN out.n ELSE 1

\* (mutant) The clock is read again for every record of the message.
StampTimePerRecord(t, i) == t + i - 1

\* The time stamped on the i-th record of a message received at t: now is
\* read once, before the loader is called.
StampTime(t, i) == t

\* (mutant) The dict of None is laid over the decoded record: each.update(dict_repr).
DictReprNoneOnTop(keys, m, t, i) ==
    [k \in Range(Columns) \cup keys
            \cup (IF auto_datetime THEN {"_datetime_"} ELSE {})
            \cup (IF auto_timestamp THEN {"_timestamp_"} ELSE {})
            \cup (IF auto_raw THEN {"_raw_"} ELSE {}) |->
        IF k \in Range(Columns) THEN Null
        ELSE IF k = "_datetime_" THEN t
        ELSE IF k = "_timestamp_" THEN Timestamp(t)
        ELSE m]

\* The loop body for one element `each` of list_of_dict: the auto-columns are
\* set on it, then it is laid over a dict of None for every user column.
\* A decoded field's value is the id of its message.
DictRepr(keys, m, t, i) ==
    LET each == [k \in keys |-> m]
        stamped == [k \in keys
                        \cup (IF auto_datetime THEN {"_datetime_"} ELSE {})
                        \cup (IF auto_timestamp THEN {"_timestamp_"} ELSE {})
                        \cup (IF auto_raw THEN {"_raw_"} ELSE {}) |->
                    IF k = "_datetime_" /\ auto_datetime THEN StampTime(t, i)
                    ELSE IF k = "_timestamp_" /\ auto_timestamp THEN Timestamp(StampTime(t, i))
                    ELSE IF k = "_raw_" /\ auto_raw THEN m
                    ELSE each[k]]
    IN  [k \in Range(Columns) \cup DOMAIN stamped |->
            IF k \in DOMAIN stamped THEN stamped[k] ELSE Null]

\* Whether turning the loader's output into records raises: a text cannot be
\* assigned an auto-column (TypeError), and dict.update(text) raises ValueError
\* unless the text is empty.
ConversionRaises(out) ==
    /\ out.kind = "text"
    /\ (auto_datetime \/ auto_timestamp \/ auto_raw \/ out.n > 0)

\* (mutant) The records of a message are put in front of the buffer.
PrependAll(buf, out, m, t, base) ==
    [i \in 1..NumRecords(out) |->
        [seq |-> base + i, msg |-> m, dec |-> out.keys,
         rec |-> DictRepr(out.keys, m, t, i)]] \o buf

\* rows.append(dict_repr) for every record of the message, in the loader's order.
\* seq, msg and dec are the record's history: its append number, its message
\* and the keys the loader gave it.
AppendAll(buf, out, m, t, base) ==
    buf \o [i \in 1..NumRecords(out) |->
              [seq |-> base + i, msg |-> m, dec |-> out.keys,
               rec |-> DictRepr(out.keys, m, t, i)]]

\* (mutant) The INSERT binds every key of the buffered record.
BindEveryKey(e, t) ==
    [seq |-> e.seq, msg |-> e.msg, dec |-> e.dec, dest |-> UrlOf(t), row |-> e.rec]

\* The row the INSERT statement binds from a buffered record: the named
\* placeholders of insert_columns, nothing else.
\* seq, msg and dec are carried along as the row's history; dest is the
\* destination the flush resolved.
BindRow(e, t) ==
    [seq |-> e.seq, msg |-> e.msg, dec |-> e.dec, dest |-> UrlOf(t),
     row |-> [k \in InsertColumns |-> e.rec[k]]]

BindAll(buf, t) == [i \in 1..Len(buf) |-> BindRow(buf[i], t)]

\* ------------------------------------------------------------ worker: Init
WorkerInit ==
    /\ \E c \in AutoConfs :
        /\ auto_datetime = c[1]
        /\ auto_timestamp = c[2]
        /\ auto_raw = c[3]
    /\ pc = "loop"
    /\ stop_event = FALSE
    /\ clock = 0
    /\ now = clock
    /\ prev = clock
    /\ rows = <<>>
    /\ sink = <<>>
    /\ flushFrom = "none"
    /\ fault = "none"
    /\ sock = "open"
    /\ received = 0
    /\ appended = 0
    /\ last = "none"
    /\ rows0 = <<>>
    /\ sink0 = <<>>
    /\ exitRows = <<>>
    /\ finalAttempts = 0
    /\ flushed = <<>>
    /\ outage = "none"
    /\ kept = 0

CtlIdle ==
    /\ confs = <<>>
    /\ ctl = "none"
    /\ next_target = 1
    /\ threads = <<>>
    /\ wstate = <<>>
    /\ wstop = <<>>

CsvIdle ==
    /\ csv_payload = <<>>
    /\ csv_result = "none"
    /\ csv_rows = <<>>

Init == WorkerInit /\ CtlIdle /\ CsvIdle

\* ---------------------------------------------------------- worker: actions
\* _Worker.stop, called from the controller's thread at any time.
Stop ==
    /\ ~stop_event
    /\ stop_event' = TRUE
    /\ UNCHANGED <<auto_datetime, auto_timestamp, auto_raw, sock, pc, clock, now, prev,
                   rows, sink, flushFrom, fault>>
    /\ UNCHANGED hvars
    /\ UNCHANGED <<cvars, xvars>>

\* while not self._stop_event.is_set():
LoopTest ==
    /\ pc = "loop"
    /\ IF stop_event
       THEN /\ pc' = "final"
            /\ exitRows' = rows
            /\ last' = "exit"
       ELSE /\ pc' = "recv"
            /\ exitRows' = exitRows
            /\ last' = "enter"
    /\ rows0' = <<>>
    /\ sink0' = <<>>
    /\ UNCHANGED <<auto_datetime, auto_timestamp, auto_raw, sock, stop_event, clock, now, prev,
                   rows, sink, flushFrom, fault>>
    /\ UNCHANGED <<received, appended, finalAttempts, flushed, outage, kept>>
    /\ UNCHANGED <<cvars, xvars>>

\* data = self._recv() raises zmq.Again after RCVTIMEO: continue.
Timeout ==
    /\ pc = "recv"
    /\ clock' = Min(clock + RcvTimeo, MaxClock)
    /\ pc' = "loop"
    /\ last' = "timeout"
    /\ UNCHANGED <<auto_datetime, auto_timestamp, auto_raw, sock, stop_event, now, prev,
                   rows, sink, flushFrom, fault>>
    /\ UNCHANGED <<received, appended, rows0, sink0, exitRows, finalAttempts, flushed, outage, kept>>
    /\ UNCHANGED <<cvars, xvars>>

\* data = self._recv() returns a message; now = datetime.now(); the loader is
\* called and its records are appended. (A message that arrives after a wait
\* is a Timeout followed by a Receive.)
Receive(out) ==
    /\ pc = "recv"
    /\ received < MaxMsgs
    /\ now' = clock
    /\ received' = received + 1
    /\ IF out.kind = "raise" \/ ConversionRaises(out)
       THEN /\ pc' = "dead"
            /\ fault' = "decode"
            /\ last' = "decode_fault"
            /\ UNCHANGED <<rows, appended>>
       ELSE /\ pc' = "check"
            /\ fault' = fault
            /\ last' = "message"
            /\ rows' = AppendAll(rows, out, received', now', appended)
            /\ appended' = appended + NumRecords(out)
    /\ UNCHANGED <<auto_datetime, auto_timestamp, auto_raw, sock, stop_event, clock, prev,
                   sink, flushFrom>>
    /\ UNCHANGED <<rows0, sink0, exitRows, finalAttempts, flushed, outage, kept>>
    /\ UNCHANGED <<cvars, xvars>>

\* if now - prev > self._interval: try: self.flush(now, rows); prev = now
\* flush returns at once when rows is empty.
FlushCheck ==
    /\ pc = "check"
    /\ IF now - prev > Interval
       THEN IF rows = <<>>
            THEN /\ prev' = now
                 /\ pc' = "loop"
                 /\ last' = "flush_empty"
                 /\ UNCHANGED <<flushFrom, rows0, sink0>>
            ELSE /\ pc' = "open"
                 /\ flushFrom' = "loop"
                 /\ rows0' = rows
                 /\ sink0' = sink
                 /\ last' = "flush_called"
                 /\ prev' = prev
       ELSE /\ pc' = "loop"
            /\ last' = "no_flush"
            /\ UNCHANGED <<prev, flushFrom, rows0, sink0>>
    /\ UNCHANGED <<auto_datetime, auto_timestamp, auto_raw, sock, stop_event, clock, now,
                   rows, sink, fault>>
    /\ UNCHANGED <<received, appended, exitRows, finalAttempts, flushed, outage, kept>>
    /\ UNCHANGED <<cvars, xvars>>

\* (mutant) The flush after the loop is made only when the interval has elapsed.
FinalFlushWhenDue ==
    /\ pc = "final"
    /\ IF rows = <<>> \/ ~(now - prev > Interval)
       THEN /\ pc' = "stopped"
            /\ last' = "final_empty"
            /\ UNCHANGED <<flushFrom, rows0, sink0, finalAttempts>>
       ELSE /\ pc' = "open"
            /\ flushFrom' = "final"
            /\ rows0' = rows
            /\ sink0' = sink
            /\ finalAttempts' = finalAttempts + 1
            /\ last' = "flush_called"
    /\ UNCHANGED <<auto_datetime, auto_timestamp, auto_raw, sock, stop_event, clock, now, prev,
                   rows, sink, fault>>
    /\ UNCHANGED <<received, appended, exitRows, flushed, outage, kept>>
    /\ UNCHANGED <<cvars, xvars>>

\* self.flush(now, rows) after the loop: no try around it.
FinalFlush ==
    /\ pc = "final"
    /\ IF rows = <<>>
       THEN /\ pc' = "stopped"
            /\ last' = "final_empty"
            /\ UNCHANGED <<flushFrom, rows0, sink0, finalAttempts>>
       ELSE /\ pc' = "open"
            /\ flushFrom' = "final"
            /\ rows0' = rows
            /\ sink0' = sink
            /\ finalAttempts' = finalAttempts + 1
            /\ last' = "flush_called"
    /\ UNCHANGED <<auto_datetime, auto_timestamp, auto_raw, sock, stop_event, clock, now, prev,
                   rows, sink, fault>>
    /\ UNCHANGED <<received, appended, exitRows, flushed, outage, kept>>
    /\ UNCHANGED <<cvars, xvars>>

\* An exception leaves flush at step s: the loop's try prints it and goes on,
\* the final call has no try and the exception ends run().
Raised(s) ==
    /\ last' = "fail_" \o s
    /\ outage' = IF s = "open" /\ outage # "other" THEN "unreachable" ELSE "other"
    /\ kept' = Len(rows)
    /\ IF flushFrom = "loop"
       THEN pc' = "loop" /\ fault' = fault
       ELSE pc' = "dead" /\ fault' = "flush"

\* (mutant) flush tests the stop event between its steps and gives up.
StatementInterruptible(s, then) ==
    /\ pc = s
    /\ IF stop_event
       THEN /\ pc' = "final" /\ fault' = fault /\ last' = "exit"
            /\ UNCHANGED <<outage, kept>>
       ELSE \E ok \in BOOLEAN :
              IF ok
              THEN /\ pc' = then /\ fault' = fault /\ last' = "done_" \o s
                   /\ UNCHANGED <<outage, kept>>
              ELSE Raised(s)
    /\ UNCHANGED <<auto_datetime, auto_timestamp, auto_raw, sock, stop_event, clock, now, prev,
                   rows, sink, flushFrom>>
    /\ UNCHANGED <<received, appended, rows0, sink0, exitRows, finalAttempts, flushed>>
    /\ UNCHANGED <<cvars, xvars>>

\* (mutant) A step of flush that fails drops the buffer.
StatementDropsBuffer(s, then) ==
    /\ pc = s
    /\ \E ok \in BOOLEAN :
        IF ok
        THEN /\ pc' = then /\ fault' = fault /\ last' = "done_" \o s
             /\ UNCHANGED <<outage, kept, rows>>
        ELSE /\ Raised(s)
             /\ rows' = <<>>
    /\ UNCHANGED <<auto_datetime, auto_timestamp, auto_raw, sock, stop_event, clock, now, prev,
                   sink, flushFrom>>
    /\ UNCHANGED <<received, appended, rows0, sink0, exitRows, finalAttempts, flushed>>
    /\ UNCHANGED <<cvars, xvars>>

\* One of the steps of flush that write no row: create_engine(url).connect()
\* and con.begin(), the init statements, CREATE TABLE, the CREATE INDEXes.
Statement(s, then) ==
    /\ pc = s
    /\ \E ok \in BOOLEAN :
        IF ok
        THEN pc' = then /\ fault' = fault /\ last' = "done_" \o s
             /\ UNCHANGED <<outage, kept>>
        ELSE Raised(s)
    /\ UNCHANGED <<auto_datetime, auto_timestamp, auto_raw, sock, stop_event, clock, now, prev,
                   rows, sink, flushFrom>>
    /\ UNCHANGED <<received, appended, rows0, sink0, exitRows, finalAttempts, flushed>>
    /\ UNCHANGED <<cvars, xvars>>

FlushOpen == Statement("open", "init")
FlushInit == Statement("init", "table")
FlushTable == Statement("table", "index")
FlushIndices == Statement("index", "insert")

\* con.execute(self._sql_insert, rows); rows.clear()
\* The connection is in AUTOCOMMIT: every row the bulk insert has executed is
\* visible at once, also when a later row of the batch raises.
FlushInsert ==
    /\ pc = "insert"
    /\ \/ /\ sink' = sink \o BindAll(rows, now)
          /\ rows' = <<>>
          /\ pc' = "commit"
          /\ fault' = fault
          /\ last' = "done_insert"
          /\ UNCHANGED <<outage, kept>>
       \/ \E k \in 0..(Len(rows) - 1) :
            /\ sink' = sink \o SubSeq(BindAll(rows, now), 1, k)
            /\ rows' = rows
            /\ Raised("insert")
    /\ UNCHANGED <<auto_datetime, auto_timestamp, auto_raw, sock, stop_event, clock, now, prev,
                   flushFrom>>
    /\ UNCHANGED <<received, appended, rows0, sink0, exitRows, finalAttempts, flushed>>
    /\ UNCHANGED <<cvars, xvars>>

\* (mutant) prev = now is in a finally: it is set after a failed commit too.
FlushCommitAlwaysAdvances ==
    /\ pc = "commit"
    /\ \/ /\ last' = "flush_ok"
          /\ flushed' = flushed \o rows0
          /\ fault' = fault
          /\ IF flushFrom = "loop"
             THEN pc' = "loop" /\ prev' = now
             ELSE pc' = "stopped" /\ prev' = prev
          /\ UNCHANGED <<outage, kept>>
       \/ /\ Raised("commit")
          /\ prev' = now
          /\ UNCHANGED flushed
    /\ UNCHANGED <<auto_datetime, auto_timestamp, auto_raw, sock, stop_event, clock, now,
                   rows, sink, flushFrom>>
    /\ UNCHANGED <<received, appended, rows0, sink0, exitRows, finalAttempts>>
    /\ UNCHANGED <<cvars, xvars>>

\* The end of `with con.begin()`: the commit; then flush returns and the loop
\* sets prev = now.
FlushCommit ==
    /\ pc = "commit"
    /\ \/ /\ last' = "flush_ok"
          /\ flushed' = flushed \o rows0
          /\ fault' = fault
          /\ IF flushFrom = "loop"
             THEN pc' = "loop" /\ prev' = now
             ELSE pc' = "stopped" /\ prev' = prev
          /\ UNCHANGED <<outage, kept>>
       \/ /\ Raised("commit")
          /\ UNCHANGED <<prev, flushed>>
    /\ UNCHANGED <<auto_datetime, auto_timestamp, auto_raw, sock, stop_event, clock, now,
                   rows, sink, flushFrom>>
    /\ UNCHANGED <<received, appended, rows0, sink0, exitRows, finalAttempts>>
    /\ UNCHANGED <<cvars, xvars>>

Next ==
    \/ Stop
    \/ LoopTest
    \/ Timeout
    \/ \E out \in LoaderOutputs : Receive(out)
    \/ FlushCheck
    \/ FinalFlush
    \/ FlushOpen
    \/ FlushInit
    \/ FlushTable
    \/ FlushIndices
    \/ FlushInsert
    \/ FlushCommit

Spec == Init /\ [][Next]_vars

\* ------------------------------------------------------- controller (Mq2db)
\* The configured targets, in the order of self._conf["targets"].items().
Targets == <<"t1", "t2", "t3">>

\* What a target's configuration can lack: "address" (KeyError at
\* getattr(self._sock, mq_method)(self._conf["address"])), a loader class that
\* resolves (import_module / getattr raise), "database" (KeyError).
ConfKinds == {"ok", "no_address", "bad_loader", "no_database"}

\* Whether _Worker.__init__ returns for a configuration.
WorkerConstructs(conf) == conf = "ok"

Ended(i) == wstate[i] \in {"stopped", "dead"}

CtlInit ==
    /\ confs \in [1..Len(Targets) -> ConfKinds]
    /\ ctl = "init"
    /\ next_target = 1
    /\ threads = <<>>
    /\ wstate = [i \in 1..Len(Targets) |-> "none"]
    /\ wstop = [i \in 1..Len(Targets) |-> FALSE]

\* One round of `for name, conf in self._conf["targets"].items()`: the worker
\* is constructed and appended; an exception of _Worker.__init__ is not caught
\* and leaves Mq2db.__init__.
Construct ==
    /\ ctl = "init"
    /\ next_target <= Len(Targets)
    /\ IF WorkerConstructs(confs[next_target])
       THEN /\ threads' = Append(threads, next_target)
            /\ wstate' = [wstate EXCEPT ![next_target] = "new"]
            /\ next_target' = next_target + 1
            /\ ctl' = ctl
       ELSE /\ ctl' = "failed"
            /\ UNCHANGED <<threads, wstate, next_target>>
    /\ UNCHANGED <<confs, wstop>>
    /\ UNCHANGED <<wvars, hvars, xvars>>

\* Mq2db.__init__ returns.
Constructed ==
    /\ ctl = "init"
    /\ next_target > Len(Targets)
    /\ ctl' = "ready"
    /\ UNCHANGED <<confs, next_target, threads, wstate, wstop>>
    /\ UNCHANGED <<wvars, hvars, xvars>>

\* start(): for thread in self._threads: thread.start()
Start ==
    /\ ctl = "ready"
    /\ wstate' = [i \in 1..Len(Targets) |->
                    IF i \in Range(threads) THEN "running" ELSE wstate[i]]
    /\ ctl' = "started"
    /\ UNCHANGED <<confs, next_target, threads, wstop>>
    /\ UNCHANGED <<wvars, hvars, xvars>>

\* except KeyboardInterrupt: for thread in self._threads: thread.stop()
Interrupt ==
    /\ ctl = "started"
    /\ wstop' = [i \in 1..Len(Targets) |-> i \in Range(threads)]
    /\ ctl' = "joining"
    /\ UNCHANGED <<confs, next_target, threads, wstate>>
    /\ UNCHANGED <<wvars, hvars, xvars>>

\* One iteration of a worker's loop: it goes on, sees the stop event at the
\* top of the loop, or an uncaught exception of the loader ends the thread.
WorkerIterate(i) ==
    /\ wstate[i] = "running"
    /\ \/ /\ wstop[i]
          /\ wstate' = [wstate EXCEPT ![i] = "final"]
       \/ wstate' = [wstate EXCEPT ![i] = "dead"]
    /\ UNCHANGED <<confs, ctl, next_target, threads, wstop>>
    /\ UNCHANGED <<wvars, hvars, xvars>>

\* The flush after the loop: run() returns, or the flush raises.
WorkerFinal(i) ==
    /\ wstate[i] = "final"
    /\ \E ok \in BOOLEAN :
        wstate' = [wstate EXCEPT ![i] = IF ok THEN "stopped" ELSE "dead"]
    /\ UNCHANGED <<confs, ctl, next_target, threads, wstop>>
    /\ UNCHANGED <<wvars, hvars, xvars>>

\* (mutant) start() goes on without joining the threads.
JoinWithoutWaiting ==
    /\ ctl = "joining"
    /\ ctl' = "done"
    /\ UNCHANGED <<confs, next_target, threads, wstate, wstop>>
    /\ UNCHANGED <<wvars, hvars, xvars>>

\* for thread in self._threads: thread.join()
Join ==
    /\ ctl = "joining"
    /\ \A i \in Range(threads) : Ended(i)
    /\ ctl' = "done"
    /\ UNCHANGED <<confs, next_target, threads, wstate, wstop>>
    /\ UNCHANGED <<wvars, hvars, xvars>>

NextCtl ==
    \/ Construct
    \/ Constructed
    \/ Start
    \/ Interrupt
    \/ \E i \in 1..Len(Targets) : WorkerIterate(i)
    \/ \E i \in 1..Len(Targets) : WorkerFinal(i)
    \/ Join

\* The worker of Spec is left where WorkerInit puts it.
InitCtl ==
    /\ WorkerInit
    /\ auto_datetime /\ auto_timestamp /\ auto_raw
    /\ CtlInit
    /\ CsvIdle

SpecCtl == InitCtl /\ [][NextCtl]_vars

\* The iteration in which a running worker finds its stop event set:
\* `while not self._stop_event.is_set()` is evaluated again after every
\* iteration, and RCVTIMEO ends every receive.
WorkerSeesStop(i) == WorkerIterate(i) /\ wstate'[i] = "final"

\* The threads are scheduled: a worker whose stop event is set gets to the top
\* of its loop, its final flush returns or raises, and join returns once the
\* threads have ended.
SpecCtlFair ==
    /\ SpecCtl
    /\ \A i \in 1..Len(Targets) :
          WF_vars(WorkerSeesStop(i)) /\ WF_vars(WorkerFinal(i))
    /\ WF_vars(Join)

\* ---------------------------------------------------------------- CSVLoader
\* Lines of one payload.
MaxLines == 2
\* Fields of one line.
MaxFields == 3

\* A text is a sequence of characters. The header the loader is configured
\* with (k = 2 names, one of them with a blank before it) and the texts of a
\* field.
CsvHeader == << <<"t">>, <<" ", "r">> >>
CsvFields == { <<"1">>, <<" ", "2", " ">> }

\* str.strip(): the text without its leading and trailing blanks.
RECURSIVE LStrip(_)
LStrip(t) == IF t # <<>> /\ Head(t) = " " THEN LStrip(Tail(t)) ELSE t
RECURSIVE RStrip(_)
RStrip(t) ==
    IF t # <<>> /\ t[Len(t)] = " " THEN RStrip(SubSeq(t, 1, Len(t) - 1)) ELSE t
Strip(t) == RStrip(LStrip(t))

\* The lines a payload can have: no field (a blank line) up to MaxFields fields.
CsvLines == UNION {[1..n -> CsvFields] : n \in 0..MaxFields}
CsvPayloads == UNION {[1..n -> CsvLines] : n \in 0..MaxLines}

\* csv.DictReader skips the rows that are empty.
NonBlank(lines) == SelectSeq(lines, LAMBDA l : l # <<>>)

\* One row of csv.DictReader(lines, fieldnames=header), as its items in order:
\* the names are zipped with the fields; fields beyond the names are put, as a
\* list, under the key None (restkey); names beyond the fields get the value
\* None (restval).
DictReaderRow(header, line) ==
    [j \in 1..Min(Len(header), Len(line)) |->
        [key |-> [t |-> "str", s |-> header[j]], value |-> [t |-> "str", s |-> line[j]]]]
    \o (IF Len(line) > Len(header)
        THEN << [key |-> [t |-> "none"], value |-> [t |-> "list"]] >>
        ELSE [j \in 1..(Len(header) - Len(line)) |->
                [key |-> [t |-> "str", s |-> header[Len(line) + j]],
                 value |-> [t |-> "none"]]])

\* line_data[key.strip()] = value.strip() raises AttributeError for a key or
\* a value that is no str.
LineRaises(row) ==
    \E j \in 1..Len(row) : row[j].key.t # "str" \/ row[j].value.t # "str"

LineData(row) ==
    [j \in 1..Len(row) |-> [key |-> Strip(row[j].key.s), value |-> Strip(row[j].value.s)]]

\* CSVLoader.__call__: whether it raises, and the list it returns.
CSVLoaderRaises(lines) ==
    \E i \in 1..Len(NonBlank(lines)) : LineRaises(DictReaderRow(CsvHeader, NonBlank(lines)[i]))

CSVLoader(lines) ==
    [i \in 1..Len(NonBlank(lines)) |-> LineData(DictReaderRow(CsvHeader, NonBlank(lines)[i]))]

CsvInit ==
    /\ WorkerInit
    /\ ~auto_datetime /\ ~auto_timestamp /\ ~auto_raw
    /\ CtlIdle
    /\ csv_payload \in CsvPayloads
    /\ csv_result = "none"
    /\ csv_rows = <<>>

\* One receive of run(): the loader is called and its records are appended;
\* an exception of the loader is not caught and leaves run().
CsvReceive ==
    /\ csv_result = "none"
    /\ IF CSVLoaderRaises(csv_payload)
       THEN /\ csv_result' = "fault"
            /\ csv_rows' = csv_rows
       ELSE /\ csv_result' = "ok"
            /\ csv_rows' = csv_rows \o CSVLoader(csv_payload)
    /\ UNCHANGED csv_payload
    /\ UNCHANGED <<wvars, hvars, cvars>>

NextCsv == CsvReceive

SpecCsv == CsvInit /\ [][NextCsv]_vars

\* ================================================================ properties
\* The steps of flush, from create_engine(url).connect() to the commit.
FlushSteps == {"open", "init", "table", "index", "insert", "commit"}

FlushFailures ==
    {"fail_open", "fail_init", "fail_table", "fail_index", "fail_insert", "fail_commit"}

\* The rows of the sink (or the records of a buffer) with append number id.
Copies(q, id) == Cardinality({i \in 1..Len(q) : q[i].seq = id})

Increasing(q) == \A i \in 1..(Len(q) - 1) : q[i].seq < q[i + 1].seq

\* C1: right after a flush called from the loop has failed, at whatever step
\* from opening the connection to the commit, the buffer is what it was when
\* the flush was called and the worker is still in its loop.
C1_FailedFlushKeepsBuffer ==
    (last \in FlushFailures /\ flushFrom = "loop")
        => (rows = rows0 /\ pc = "loop" /\ fault = "none")

\* C2: right after a flush has failed at a step before its commit, the rows of
\* the sink are the rows it had when the flush was called.
C2_FailedFlushLeavesSink ==
    (last \in FlushFailures \ {"fail_commit"}) => sink = sink0

\* C3: every record appended so far is in exactly one place, the buffer or the
\* sink, and there once.
C3_ExactlyOnePlace ==
    \A id \in 1..appended : Copies(rows, id) + Copies(sink, id) = 1

\* C4: a worker that left its loop on the stop event with a non-empty buffer
\* makes exactly one flush attempt, of that whole buffer, before run() ends,
\* whatever now - prev is; it makes none before the loop is left and none when
\* the buffer is empty.
C4_FinalFlushOnce ==
    /\ finalAttempts <= 1
    /\ pc \in {"loop", "recv", "check", "final"} => finalAttempts = 0
    /\ (pc = "stopped" \/ fault = "flush") =>
          IF exitRows = <<>>
          THEN finalAttempts = 0
          ELSE finalAttempts = 1 /\ rows0 = exitRows

\* C4 witness: run() has returned after a final flush of a non-empty buffer
\* made before the interval had elapsed.
C4_Witness ==
    /\ pc = "stopped"
    /\ exitRows # <<>>
    /\ finalAttempts = 1
    /\ ~(now - prev > Interval)

\* C5: right after the loader (or the conversion of its output) has raised,
\* the worker is still running: run() has not ended and no exception has
\* left it.
C5_DecodeFaultSkipped ==
    last = "decode_fault" => (pc \notin {"dead", "stopped"} /\ fault = "none")

\* C6: a receive timeout with a non-empty buffer and the interval elapsed since
\* prev reaches the flush check of its iteration and a flush attempt is made.
C6_TimeoutReachesFlush ==
    (last = "timeout" /\ rows # <<>> /\ clock - prev > Interval)
        => pc \in {"check", "open"}

\* C8 (as claimed): every buffered record has only keys that are insert columns.
C8_BufferKeysAreColumns ==
    \A i \in 1..Len(rows) : DOMAIN rows[i].rec \subseteq InsertColumns

\* C8 (amended): a buffered record keeps every key the loader gave it, beside
\* the user columns and the enabled auto-columns; the keys that are no column
\* are dropped when the INSERT binds the record, so every row of the sink has
\* exactly the insert columns.
C8_SinkKeysAreColumns ==
    /\ \A i \in 1..Len(rows) : DOMAIN rows[i].rec = InsertColumns \cup rows[i].dec
    /\ \A i \in 1..Len(sink) : DOMAIN sink[i].row = InsertColumns

\* C8 witness: a record decoded with a field that is no column is in the sink.
C8_Witness ==
    \E i \in 1..Len(sink) : ~(sink[i].dec \subseteq InsertColumns)

\* C9: the buffer is in append order; the records of the committed flushes,
\* batch after batch, are in append order; and the rows a flush has written
\* are the first rows of its batch, in the order of the batch.
C9_AppendOrder ==
    /\ Increasing(rows)
    /\ Increasing(flushed)
    /\ rows0 # <<>> =>
          \E k \in 0..Len(rows0) : sink = sink0 \o SubSeq(BindAll(rows0, now), 1, k)

\* C9 witness: a second flush has committed, with a batch of two records or more.
C9_Witness ==
    /\ last = "flush_ok"
    /\ Len(rows0) >= 2
    /\ Len(flushed) > Len(rows0)

\* C10: the records of one message carry the same _datetime_ and the same
\* _timestamp_, in the buffer and in the sink.
C10_OneTimePerMessage ==
    /\ \A i, j \in 1..Len(rows) :
          rows[i].msg = rows[j].msg =>
            /\ auto_datetime => rows[i].rec["_datetime_"] = rows[j].rec["_datetime_"]
            /\ auto_timestamp => rows[i].rec["_timestamp_"] = rows[j].rec["_timestamp_"]
    /\ \A i, j \in 1..Len(sink) :
          sink[i].msg = sink[j].msg =>
            /\ auto_datetime => sink[i].row["_datetime_"] = sink[j].row["_datetime_"]
            /\ auto_timestamp => sink[i].row["_timestamp_"] = sink[j].row["_timestamp_"]

\* C10 witness: two records of one message are buffered with both time columns.
C10_Witness ==
    /\ auto_datetime /\ auto_timestamp
    /\ \E i, j \in 1..Len(rows) : i # j /\ rows[i].msg = rows[j].msg

\* C7: once Mq2db.__init__ has ended, every target whose configuration is
\* valid has its worker in self._threads of a controller that can be started.
C7_SiblingsConstructed ==
    ctl # "init" =>
        \A i \in 1..Len(Targets) :
            WorkerConstructs(confs[i]) => (i \in Range(threads) /\ ctl # "failed")

\* C11: every buffered record has every user column, with the decoded value
\* (the id of its message) when the loader gave the column and None when it
\* did not; it has every column the INSERT binds; and the records of a message
\* are all in the buffer once the message is appended.
C11_ColumnsBackfilled ==
    /\ \A i \in 1..Len(rows) :
          /\ InsertColumns \subseteq DOMAIN rows[i].rec
          /\ \A c \in Range(Columns) :
                rows[i].rec[c] = IF c \in rows[i].dec THEN rows[i].msg ELSE Null
    /\ last = "message" =>
          \A id \in 1..appended : Copies(rows, id) + Copies(sink, id) >= 1

\* C11 witness: a buffered record has a decoded column and a column that the
\* loader did not give it.
C11_Witness ==
    \E i \in 1..Len(rows) :
        \E c, d \in Range(Columns) :
            /\ c \in rows[i].dec /\ rows[i].rec[c] = rows[i].msg
            /\ d \notin rows[i].dec /\ rows[i].rec[d] = Null

\* C12: run() has ended only after the call of the final flush was reached
\* and the socket was released.
C12_EndsAfterFlushAndTeardown ==
    pc \in {"stopped", "dead"} => (fault # "decode" /\ sock = "closed")

\* C13: once the controller has caught the interrupt, the stop event of every
\* thread is set; start() gets past its joins only when every thread has
\* ended; and it does get past them.
C13_StopAllThenJoin ==
    /\ [](ctl \in {"joining", "done"} => \A i \in Range(threads) : wstop[i])
    /\ [](ctl = "done" => \A i \in Range(threads) : Ended(i))
    /\ (ctl = "joining" ~> ctl = "done")

\* C13 witness: start() has returned with two threads or more, each of which
\* saw its stop event and returned from run().
C13_Witness ==
    /\ ctl = "done"
    /\ Len(threads) >= 2
    /\ \A i \in Range(threads) : wstop[i] /\ wstate[i] = "stopped"

\* C14: when every flush failure so far was a failure to connect, a flush
\* that commits leaves the buffer empty and every record appended so far in
\* the sink exactly once: the records the failed attempts kept and the records
\* received since.
C14_RetrySendsAllOnce ==
    (last = "flush_ok" /\ outage = "unreachable") =>
        /\ rows = <<>>
        /\ \A id \in 1..appended : Copies(sink, id) = 1

\* C14 witness: a flush has committed a batch of the records a failed connect
\* had kept and of records received after it.
C14_Witness ==
    /\ last = "flush_ok"
    /\ outage = "unreachable"
    /\ kept > 0
    /\ Len(rows0) > kept

\* C15: after the receive of a payload, no fault has happened, the buffer has
\* one record for every non-blank line, in line order, and the record of a
\* line of k fields has the trimmed header names as keys, in the header's
\* order, with the trimmed fields as values.
C15_CsvLinesBecomeRecords ==
    csv_result # "none" =>
        /\ csv_result = "ok"
        /\ Len(csv_rows) = Len(NonBlank(csv_payload))
        /\ \A i \in 1..Len(csv_rows) :
              Len(NonBlank(csv_payload)[i]) = Len(CsvHeader) =>
                csv_rows[i] = [j \in 1..Len(CsvHeader) |->
                                 [key |-> Strip(CsvHeader[j]),
                                  value |-> Strip(NonBlank(csv_payload)[i][j])]]

\* C16 (as claimed): prev changes only in the step in which a flush called
\* from the loop with a non-empty buffer commits, and then to that iteration's
\* now.
C16_PrevOnlyOnFlushSuccess ==
    [][prev' # prev =>
          /\ pc = "commit" /\ flushFrom = "loop" /\ last' = "flush_ok"
          /\ rows0 # <<>>
          /\ prev' = now]_vars

\* C16 (amended): prev changes only when the interval has elapsed and the call
\* of flush returns without an exception: a flush of a non-empty buffer that
\* commits, or the call with an empty buffer, which returns at once. It is
\* then set to that iteration's now. A failed attempt and an iteration in which
\* the interval has not elapsed leave it unchanged.
C16_PrevOnFlushReturn ==
    [][/\ prev' # prev =>
             /\ prev' = now
             /\ now - prev > Interval
             /\ \/ pc = "commit" /\ flushFrom = "loop" /\ last' = "flush_ok"
                \/ pc = "check" /\ rows = <<>> /\ last' = "flush_empty"
       /\ (last' = "flush_ok" /\ flushFrom = "loop") => prev' = now
       /\ last' = "flush_empty" => prev' = now
       /\ last' \in FlushFailures \cup {"no_flush"} => prev' = prev]_vars

\* C16 witness: an iteration with an empty buffer has moved prev to its now.
C16_Witness ==
    /\ last = "flush_empty"
    /\ rows = <<>>
    /\ prev = now
    /\ prev > 0

\* C17: the iteration after a failed flush makes a new attempt also when its
\* receive times out: after a timeout with the records of a failed flush
\* still buffered and prev not advanced, the worker is at its flush check or
\* in the flush.
C17_RetryOnNextIteration ==
    (last = "timeout" /\ outage # "none" /\ kept > 0 /\ Len(rows) >= kept
        /\ now - prev > Interval)
        => pc \in {"check", "open"}

\* C18: a flush begins only from the flush check of the loop or from the call
\* after the loop, never while another is in progress; a flush in progress goes
\* from step to step and ends only by its commit or by an exception, whether
\* the stop event is set or not; the loop is left only at its test, with the
\* stop event set; and the final flush begins only after the loop was left.
C18_FlushNotInterrupted ==
    [][/\ (pc \in FlushSteps /\ pc' # pc) =>
             \/ pc' \in FlushSteps /\ last' = "done_" \o pc /\ flushFrom' = flushFrom
             \/ pc' \notin FlushSteps /\ last' \in FlushFailures \cup {"flush_ok"}
       /\ (pc' = "open" /\ pc # "open") =>
             \/ pc = "check" /\ flushFrom' = "loop"
             \/ pc = "final" /\ flushFrom' = "final"
       /\ (pc' = "final" /\ pc # "final") => (pc = "loop" /\ stop_event)
       /\ (pc \in FlushSteps /\ stop_event' # stop_event) => pc' = pc]_vars

\* C18 witness: the stop event is set while the bulk insert of a flush called
\* from the loop is about to be executed.
C18_Witness ==
    /\ stop_event
    /\ pc = "insert"
    /\ flushFrom = "loop"

\* C19: the rows a flush writes, the final flush included, all go to the one
\* destination that the time of the flush resolves to.
C19_DestinationOfFlushTime ==
    rows0 # <<>> =>
        \A i \in (Len(sink0) + 1)..Len(sink) : sink[i].dest = UrlOf(clock)

\* C20: with _datetime_ enabled and the default primary key, two records of
\* the buffer (the batch of the next flush) that come from one message differ
\* in a column of the primary key.
C20_DefaultKeyDistinctInBatch ==
    auto_datetime =>
        \A i, j \in 1..Len(rows) :
            (i # j /\ rows[i].msg = rows[j].msg) =>
                \E k \in PrimaryKey : rows[i].rec[k] # rows[j].rec[k]

====
